---- MODULE Spec2Model ----
(***************************************************************************)
(* Balanced risk-set matching (src/Algo.py).                               *)
(*                                                                         *)
(* balanced_risk_set_matching sorts a copy of the table by time, then      *)
(* walks the treated rows in that order; each one is paired with the       *)
(* nearest not yet used control whose time is not earlier.                 *)
(* analyze_matching_results summarises the time differences of the pairs.  *)
(*                                                                         *)
(* A DataFrame is a record [index, columns, strings]: index is the set of  *)
(* row labels, columns maps a column name to its values by row label, and  *)
(* strings is the set of cells <<column, label>> that hold a non-numeric   *)
(* string (astype(float) raises on them).  Cell values are integers.       *)
(* Euclidean distances are kept as their squares (NormSq): the code only   *)
(* orders distances and compares them with the caliper, and both are       *)
(* preserved by squaring non-negative numbers.  A caliper is <<>> (None)   *)
(* or <<[num, den]>>, the fraction num/den.                                *)
(***************************************************************************)
EXTENDS Integers, Sequences, FiniteSets, TLC

\* Bounds of the generic tables: at most MaxRows rows, times in 1..MaxTime.
MaxRows == 3
MaxTime == 2

\* Covariate values of the generic tables; the scenario tables use others.
Covariates == 0..1

VARIABLES
    df,                       \* argument: the caller's table
    treatment_col,            \* argument
    time_col,                 \* argument
    covariate_cols,           \* argument: sequence of column names
    caliper,                  \* argument: <<>> is None
    sort_order,               \* row labels as this build's sort_values leaves them
    pc,                       \* "call", "loop", "raised", "returned", "summarized", "analyze_raised"
    exception,                \* "None", "KeyError", "ValueError"
    df_matched,               \* the sorted copy, as its sequence of row labels
    matched_control_indices,  \* line 37
    matched_pairs,            \* line 38
    treated_indices,          \* line 40
    pos,                      \* position of the for loop in treated_indices
    risk_set,                 \* the loop's local, as last assigned
    summary,                  \* <<>> or <<the dict analyze_matching_results returns>>
    run,                      \* 1 for the first call, 2 for a repeated one
    first_pairs               \* what the first call returned

args == <<df, treatment_col, time_col, covariate_cols, caliper, sort_order>>
locals == <<df_matched, matched_control_indices, matched_pairs, treated_indices, pos, risk_set>>
vars == <<df, treatment_col, time_col, covariate_cols, caliper, sort_order, pc,
          exception, df_matched, matched_control_indices, matched_pairs,
          treated_indices, pos, risk_set, summary, run, first_pairs>>

None == <<>>

----------------------------------------------------------------------------
(* DataFrame access *)

HasColumn(d, col) == col \in DOMAIN d.columns

\* d.loc[idx, col]
Loc(d, idx, col) == d.columns[col][idx]

\* whether astype(float) accepts the cell
IsNumeric(d, idx, col) == <<col, idx>> \notin d.strings

\* The orders of the rows `rows` that are ascending in column col.
RECURSIVE Ascending(_, _, _)
Ascending(d, col, rows) ==
    IF rows = {} THEN {<<>>}
    ELSE UNION {{<<x>> \o p : p \in Ascending(d, col, rows \ {x})} :
                   x \in {y \in rows : \A z \in rows : Loc(d, y, col) <= Loc(d, z, col)}}

\* The orders sort_values(col) may leave the rows in.  The default kind is
\* quicksort, which is not stable: rows with equal keys come out in an order
\* the build decides.
SortValues(d, col) == Ascending(d, col, d.index)

----------------------------------------------------------------------------
(* The matching loop's pieces *)

\* Faulty variant, for testing the properties: the time condition of line 46 left out.
RiskSetMaskAnyTime(idx, treated_time, consumed) ==
    /\ Loc(df, idx, treatment_col) = 0
    /\ idx \notin consumed

\* lines 45-49: rows of df_matched, in its order
RiskSetMask(idx, treated_time, consumed) ==
    /\ Loc(df, idx, time_col) >= treated_time
    /\ Loc(df, idx, treatment_col) = 0
    /\ idx \notin consumed

RiskSet(treated_time, consumed) ==
    SelectSeq(df_matched, LAMBDA idx : RiskSetMask(idx, treated_time, consumed))

RECURSIVE SumSq(_, _, _)
SumSq(a, b, cols) ==
    IF cols = <<>> THEN 0
    ELSE (Loc(df, a, Head(cols)) - Loc(df, b, Head(cols)))
           * (Loc(df, a, Head(cols)) - Loc(df, b, Head(cols)))
         + SumSq(a, b, Tail(cols))

\* line 56, squared: np.linalg.norm(control - treated) ^ 2
NormSq(treated_idx, control_idx) == SumSq(control_idx, treated_idx, covariate_cols)

\* Faulty variant, for testing the properties: "below the caliper", a strict comparison.
WithinCaliperStrict(dsq, cal) ==
    /\ cal[1].num > 0
    /\ dsq * cal[1].den * cal[1].den < cal[1].num * cal[1].num

\* line 59: distance <= caliper, on the squared distance
WithinCaliper(dsq, cal) ==
    /\ cal[1].num >= 0
    /\ dsq * cal[1].den * cal[1].den <= cal[1].num * cal[1].num

\* np.where(valid)[0]
Where(valid) == SelectSeq([k \in 1..Len(valid) |-> k], LAMBDA k : valid[k])

\* s[valid] / s.iloc[positions]
Take(s, positions) == [k \in 1..Len(positions) |-> s[positions[k]]]

\* Faulty variant, for testing the properties: line 63 left out, the risk set keeps its unfiltered rows.
FilterRiskSetNot(rs, valid) == rs

\* line 63
FilterRiskSet(rs, valid) == Take(rs, Where(valid))

\* Faulty variant, for testing the properties: the last position holding the minimum.
ArgMinLast(d) ==
    CHOOSE k \in 1..Len(d) :
        /\ \A j \in 1..Len(d) : d[k] <= d[j]
        /\ \A j \in (k + 1)..Len(d) : d[j] > d[k]

\* np.argmin: the first position holding the minimum
ArgMin(d) ==
    CHOOSE k \in 1..Len(d) :
        /\ \A j \in 1..Len(d) : d[k] <= d[j]
        /\ \A j \in 1..(k - 1) : d[j] > d[k]

\* Faulty variant, for testing the properties: the chosen control is not recorded.
AddControlNot(consumed, idx) == consumed

\* line 67
AddControl(consumed, idx) == consumed \cup {idx}

\* Whether lines 54-55 can read and convert the covariates.
CovariateError(treated_idx, rs) ==
    IF \E k \in 1..Len(covariate_cols) : ~HasColumn(df, covariate_cols[k])
    THEN "KeyError"
    ELSE IF \E k \in 1..Len(covariate_cols) :
               \/ ~IsNumeric(df, treated_idx, covariate_cols[k])
               \/ \E r \in 1..Len(rs) : ~IsNumeric(df, rs[r], covariate_cols[k])
    THEN "ValueError"
    ELSE "None"

\* One pass of the loop body, lines 42-67, for treated_idx.
LoopBody(treated_idx, consumed) ==
    LET treated_time == Loc(df, treated_idx, time_col)
        rs == RiskSet(treated_time, consumed)
    IN  IF rs = <<>>
        THEN [outcome |-> "continue", risk_set |-> rs, exception |-> "None",
              best_match_idx |-> -1]
        ELSE IF CovariateError(treated_idx, rs) # "None"
        THEN [outcome |-> "raise", risk_set |-> rs,
              exception |-> CovariateError(treated_idx, rs), best_match_idx |-> -1]
        ELSE
        LET distances == [k \in 1..Len(rs) |-> NormSq(treated_idx, rs[k])]
            valid == [k \in 1..Len(rs) |-> WithinCaliper(distances[k], caliper)]
        IN  IF caliper # None /\ \A k \in 1..Len(rs) : ~valid[k]
            THEN [outcome |-> "continue", risk_set |-> rs, exception |-> "None",
                  best_match_idx |-> -1]
            ELSE
            LET kept == IF caliper # None THEN Take(distances, Where(valid))
                        ELSE distances
                rs2 == IF caliper # None THEN FilterRiskSet(rs, valid) ELSE rs
            IN  [outcome |-> "append", risk_set |-> rs2, exception |-> "None",
                 best_match_idx |-> rs2[ArgMin(kept)]]

----------------------------------------------------------------------------
(* Inputs *)

Frame(n, tr, tm, cv) ==
    [index |-> 0..(n - 1),
     columns |-> [treatment |-> tr, time |-> tm, covariate1 |-> cv],
     strings |-> {}]

Fraction(n, d) == [num |-> n, den |-> d]

Col(s) == [i \in 0..(Len(s) - 1) |-> s[i + 1]]

\* Scenario A / B of the design: times 1..4, covariates 0, 5, 1, 6.
ScenarioA == Frame(4, Col(<<1, 0, 1, 0>>), Col(<<1, 2, 3, 4>>), Col(<<0, 5, 1, 6>>))

\* Scenario C: two treated rows with one time, two controls at equal distance.
ScenarioC == Frame(4, Col(<<1, 1, 0, 0>>), Col(<<1, 1, 1, 2>>), Col(<<1, 1, 0, 2>>))

\* Two covariates: distances 5, 5 and 1 from row 0.
Scenario2D ==
    [index |-> 0..3,
     columns |-> [treatment |-> Col(<<1, 0, 0, 0>>), time |-> Col(<<1, 1, 2, 0>>),
                  covariate1 |-> Col(<<0, 3, 0, 1>>),
                  covariate2 |-> Col(<<0, 4, 5, 0>>)],
     strings |-> {}]

Scenarios ==
    {[df |-> ScenarioA, covariate_cols |-> <<"covariate1">>, caliper |-> c] :
        c \in {None, <<Fraction(1, 2)>>, <<Fraction(5, 1)>>}}
    \cup {[df |-> ScenarioC, covariate_cols |-> <<"covariate1">>, caliper |-> c] :
        c \in {None, <<Fraction(1, 1)>>}}
    \cup {[df |-> Scenario2D, covariate_cols |-> <<"covariate1", "covariate2">>,
           caliper |-> c] :
        c \in {None, <<Fraction(5, 1)>>, <<Fraction(4, 1)>>}}

Calipers == {None} \cup {<<Fraction(c, 1)>> : c \in Covariates}

\* The state before the first call.
Start(d, trc, tc, cc, cal) ==
    /\ df = d
    /\ treatment_col = trc
    /\ time_col = tc
    /\ covariate_cols = cc
    /\ caliper = cal
    /\ sort_order \in (IF HasColumn(d, tc) THEN SortValues(d, tc) ELSE {<<>>})
    /\ pc = "call"
    /\ exception = "None"
    /\ df_matched = <<>>
    /\ matched_control_indices = {}
    /\ matched_pairs = <<>>
    /\ treated_indices = <<>>
    /\ pos = 1
    /\ risk_set = <<>>
    /\ summary = <<>>
    /\ run = 1
    /\ first_pairs = <<>>

InitGeneric ==
    \E n \in 1..MaxRows :
        \E tr \in [0..(n - 1) -> {0, 1}], tm \in [0..(n - 1) -> 1..MaxTime],
           cv \in [0..(n - 1) -> Covariates], cal \in Calipers :
            Start(Frame(n, tr, tm, cv), "treatment", "time", <<"covariate1">>, cal)

InitScenario ==
    \E s \in Scenarios :
        Start(s.df, "treatment", "time", s.covariate_cols, s.caliper)

Init == InitGeneric \/ InitScenario

----------------------------------------------------------------------------
(* Actions *)

\* lines 34-40: copy, sort, fresh locals, the treated rows in sorted order
Call ==
    /\ pc = "call"
    /\ IF ~HasColumn(df, time_col) \/ ~HasColumn(df, treatment_col)
       THEN /\ pc' = "raised"
            /\ exception' = "KeyError"
            /\ UNCHANGED locals
       ELSE /\ pc' = "loop"
            /\ exception' = "None"
            /\ df_matched' = sort_order
            /\ matched_control_indices' = {}
            /\ matched_pairs' = <<>>
            /\ treated_indices' =
                   SelectSeq(sort_order, LAMBDA idx : Loc(df, idx, treatment_col) = 1)
            /\ pos' = 1
            /\ risk_set' = <<>>
    /\ UNCHANGED <<args, summary, run, first_pairs>>

\* lines 41-67: one iteration of the for loop
Iterate ==
    /\ pc = "loop"
    /\ pos <= Len(treated_indices)
    /\ LET treated_idx == treated_indices[pos]
           r == LoopBody(treated_idx, matched_control_indices)
       IN  /\ risk_set' = r.risk_set
           /\ exception' = r.exception
           /\ pc' = IF r.outcome = "raise" THEN "raised" ELSE "loop"
           /\ pos' = IF r.outcome = "raise" THEN pos ELSE pos + 1
           /\ matched_pairs' =
                  IF r.outcome = "append"
                  THEN Append(matched_pairs, <<treated_idx, r.best_match_idx>>)
                  ELSE matched_pairs
           /\ matched_control_indices' =
                  IF r.outcome = "append"
                  THEN AddControl(matched_control_indices, r.best_match_idx)
                  ELSE matched_control_indices
    /\ UNCHANGED <<args, df_matched, treated_indices, summary, run, first_pairs>>

\* line 69
Return ==
    /\ pc = "loop"
    /\ pos > Len(treated_indices)
    /\ pc' = "returned"
    /\ UNCHANGED <<args, locals, exception, summary, run, first_pairs>>

RECURSIVE Sum(_)
Sum(s) == IF s = <<>> THEN 0 ELSE Head(s) + Sum(Tail(s))

Min(s) == CHOOSE x \in {s[k] : k \in 1..Len(s)} : \A k \in 1..Len(s) : x <= s[k]

Max(s) == CHOOSE x \in {s[k] : k \in 1..Len(s)} : \A k \in 1..Len(s) : x >= s[k]

\* lines 87-89: the differences of the 'time' column over the pairs
TimeDifferences(matches, d) ==
    [k \in 1..Len(matches) |->
        Loc(d, matches[k][1], "time") - Loc(d, matches[k][2], "time")]

\* lines 91-97 on a non-empty list.  The mean is the fraction num/den and the
\* standard deviation is kept as its square, the population variance.
Summarize(matches, d) ==
    LET diffs == TimeDifferences(matches, d)
        n == Len(diffs)
        sq == [k \in 1..n |-> diffs[k] * diffs[k]]
    IN  [total_matched_pairs |-> Len(matches),
         mean_time_difference |-> Fraction(Sum(diffs), n),
         std_dev_time_difference_sq |->
             Fraction(n * Sum(sq) - Sum(diffs) * Sum(diffs), n * n),
         min_time_difference |-> Min(diffs),
         max_time_difference |-> Max(diffs)]

\* lines 87-99: analyze_matching_results(matched_pairs, df).  The lookups of
\* line 87 raise KeyError when a pair exists and df has no 'time' column; on an
\* empty list np.mean and np.std give nan with a warning and np.min raises
\* ValueError (a zero-size array has no minimum).
Analyze ==
    /\ pc = "returned"
    /\ IF matched_pairs # <<>> /\ ~HasColumn(df, "time")
       THEN /\ pc' = "analyze_raised"
            /\ exception' = "KeyError"
            /\ summary' = summary
       ELSE IF matched_pairs = <<>>
       THEN /\ pc' = "analyze_raised"
            /\ exception' = "ValueError"
            /\ summary' = summary
       ELSE /\ pc' = "summarized"
            /\ exception' = "None"
            /\ summary' = <<Summarize(matched_pairs, df)>>
    /\ UNCHANGED <<args, locals, run, first_pairs>>

\* The caller keeps the first result and calls again with the same arguments.
Repeat ==
    /\ pc = "returned"
    /\ run = 1
    /\ run' = 2
    /\ first_pairs' = matched_pairs
    /\ pc' = "call"
    /\ UNCHANGED <<args, locals, exception, summary>>

Next == Call \/ Iterate \/ Return

Spec == Init /\ [][Next]_vars

\* Two calls in a row on one input.
NextRepeat == Call \/ Iterate \/ Return \/ Repeat

SpecRepeat == Init /\ [][NextRepeat]_vars

----------------------------------------------------------------------------
(* Matching followed by the summary, on tables whose time field may be named *)
(* 'time' or 'event_time'.                                                   *)

FrameTimes(n, tr, tm, et, cv, layout) ==
    [index |-> 0..(n - 1),
     columns |->
        CASE layout = "time" ->
                [treatment |-> tr, time |-> tm, covariate1 |-> cv]
          [] layout = "both" ->
                [treatment |-> tr, time |-> tm, event_time |-> et, covariate1 |-> cv]
          [] OTHER ->
                [treatment |-> tr, event_time |-> et, covariate1 |-> cv],
     strings |-> {}]

InitSummary ==
    \E n \in 1..MaxRows :
        \E tr \in [0..(n - 1) -> {0, 1}], tm \in [0..(n - 1) -> 1..MaxTime],
           et \in [0..(n - 1) -> 1..MaxTime], cal \in {None, <<Fraction(0, 1)>>},
           layout \in {"time", "both", "event_time"} :
            /\ layout = "time" => et = tm
            /\ layout = "event_time" => et = tm
            /\ Start(FrameTimes(n, tr, tm, et, [i \in 0..(n - 1) |-> i % 2], layout),
                     "treatment",
                     IF layout = "time" THEN "time" ELSE "event_time",
                     <<"covariate1">>, cal)

NextAll == Call \/ Iterate \/ Return \/ Analyze

InitAnalysis == InitSummary \/ InitScenario

SpecSummary == InitAnalysis /\ [][NextAll]_vars

----------------------------------------------------------------------------
(* Malformed tables: a required column missing, or a string in a covariate. *)

DropColumn(d, col) ==
    [d EXCEPT !.columns = [c \in DOMAIN d.columns \ {col} |-> d.columns[c]]]

WithString(d, col, idx) == [d EXCEPT !.strings = {<<col, idx>>}]

Defects(d) ==
    {d, DropColumn(d, "time"), DropColumn(d, "treatment"),
     DropColumn(d, "covariate1")}
    \cup {WithString(d, "covariate1", idx) : idx \in d.index}

InitMalformed ==
    \E n \in 1..MaxRows :
        \E tr \in [0..(n - 1) -> {0, 1}], tm \in [0..(n - 1) -> 1..MaxTime],
           cv \in [0..(n - 1) -> Covariates], cal \in {None, <<Fraction(0, 1)>>} :
            \E d \in Defects(Frame(n, tr, tm, cv)) :
                Start(d, "treatment", "time", <<"covariate1">>, cal)

SpecMalformed == InitMalformed /\ [][NextAll]_vars

----------------------------------------------------------------------------
(* Vocabulary of the properties, stated on the table itself *)

IsTreated(idx) == Loc(df, idx, treatment_col) = 1

IsControl(idx) == Loc(df, idx, treatment_col) = 0

TimeOf(idx) == Loc(df, idx, time_col)

RECURSIVE SqDistanceFrom(_, _, _)
SqDistanceFrom(a, b, k) ==
    IF k > Len(covariate_cols) THEN 0
    ELSE (Loc(df, a, covariate_cols[k]) - Loc(df, b, covariate_cols[k]))
           * (Loc(df, a, covariate_cols[k]) - Loc(df, b, covariate_cols[k]))
         + SqDistanceFrom(a, b, k + 1)

SqDistance(a, b) == SqDistanceFrom(a, b, 1)

InCaliper(a, b) ==
    \/ caliper = None
    \/ /\ caliper[1].num >= 0
       /\ SqDistance(a, b) * caliper[1].den * caliper[1].den
            <= caliper[1].num * caliper[1].num

ControlsOf(pairs) == {pairs[k][2] : k \in 1..Len(pairs)}

TreatedOf(pairs) == {pairs[k][1] : k \in 1..Len(pairs)}

\* The controls a treated row may be paired with once `used` are taken.
EligibleControls(t, used) ==
    {x \in df.index :
        IsControl(x) /\ TimeOf(x) >= TimeOf(t) /\ x \notin used /\ InCaliper(t, x)}

Position(s, x) == CHOOSE k \in 1..Len(s) : s[k] = x

Appended == Len(matched_pairs') = Len(matched_pairs) + 1

LastPair(pairs) == pairs[Len(pairs)]

AtTurn == pc = "loop" /\ pos <= Len(treated_indices)

----------------------------------------------------------------------------
(* C1: no control is the second component of two pairs of matched_pairs,   *)
(* the consumed-control set holds exactly the controls paired so far and   *)
(* only grows, and a risk set never holds a control consumed before it was *)
(* built in a turn of the loop.                                            *)

NoControlTwice ==
    /\ \A i, j \in 1..Len(matched_pairs) :
           i # j => matched_pairs[i][2] # matched_pairs[j][2]
    /\ pc \in {"loop", "returned"} =>
           matched_control_indices = ControlsOf(matched_pairs)

ConsumedStep ==
    /\ matched_control_indices \subseteq matched_control_indices'
    /\ ControlsOf(matched_pairs) \subseteq ControlsOf(matched_pairs')
    /\ AtTurn =>
           \A k \in 1..Len(risk_set') : risk_set'[k] \notin ControlsOf(matched_pairs)

C1_Uniqueness == []NoControlTwice /\ [][ConsumedStep]_vars

\* A treated row had its turn after a control that was in time for it and
\* within the caliper had been consumed, and was left unmatched.
C1_Witness ==
    /\ pc = "returned"
    /\ \E i, j \in 1..Len(treated_indices) : \E k \in 1..Len(matched_pairs) :
           /\ i < j
           /\ matched_pairs[k][1] = treated_indices[i]
           /\ treated_indices[j] \notin TreatedOf(matched_pairs)
           /\ TimeOf(matched_pairs[k][2]) >= TimeOf(treated_indices[j])
           /\ InCaliper(treated_indices[j], matched_pairs[k][2])

----------------------------------------------------------------------------
(* C2: in every pair the first component is a treated row and the second   *)
(* is a row with treatment = 0 whose time is at least the treated row's.   *)

C2_TimeOrdering ==
    \A k \in 1..Len(matched_pairs) :
        /\ IsTreated(matched_pairs[k][1])
        /\ Loc(df, matched_pairs[k][2], treatment_col) = 0
        /\ Loc(df, matched_pairs[k][2], time_col)
             >= Loc(df, matched_pairs[k][1], time_col)

\* A pair at equal times, while a nearer control with an earlier time went
\* unused.
C2_Witness ==
    /\ pc = "returned"
    /\ \E k \in 1..Len(matched_pairs) : \E x \in df.index :
           /\ TimeOf(matched_pairs[k][2]) = TimeOf(matched_pairs[k][1])
           /\ IsControl(x)
           /\ x \notin ControlsOf(matched_pairs)
           /\ TimeOf(x) < TimeOf(matched_pairs[k][1])
           /\ SqDistance(matched_pairs[k][1], x)
                < SqDistance(matched_pairs[k][1], matched_pairs[k][2])

----------------------------------------------------------------------------
(* C3: with a caliper c, every pair's covariate distance is at most c, and *)
(* the control a step appends is a row of the filtered risk set, all of    *)
(* whose rows are within c.                                                *)

CaliperBound ==
    caliper # None =>
        \A k \in 1..Len(matched_pairs) :
            /\ caliper[1].num >= 0
            /\ SqDistance(matched_pairs[k][1], matched_pairs[k][2])
                 * caliper[1].den * caliper[1].den
                 <= caliper[1].num * caliper[1].num

PickedFromFiltered ==
    (caliper # None /\ Appended) =>
        /\ \E k \in 1..Len(risk_set') : risk_set'[k] = LastPair(matched_pairs')[2]
        /\ \A k \in 1..Len(risk_set') :
               InCaliper(LastPair(matched_pairs')[1], risk_set'[k])

C3_CaliperBound == []CaliperBound /\ [][PickedFromFiltered]_vars

\* A pair under a caliper, with an unused control in time for it that stands
\* earlier in the sorted table and is outside the caliper.
C3_Witness ==
    /\ pc = "returned"
    /\ caliper # None
    /\ \E k \in 1..Len(matched_pairs) : \E x \in df.index :
           /\ IsControl(x)
           /\ x \notin ControlsOf(matched_pairs)
           /\ TimeOf(x) >= TimeOf(matched_pairs[k][1])
           /\ ~InCaliper(matched_pairs[k][1], x)
           /\ Position(df_matched, x) < Position(df_matched, matched_pairs[k][2])

----------------------------------------------------------------------------
(* C4: with no treated row the matching returns an empty list, and the     *)
(* summary of an empty list is returned, with count 0, not an error.       *)

C4_EmptinessPropagation ==
    /\ (pc \in {"returned", "summarized", "analyze_raised"}
          /\ \A idx \in df.index : ~IsTreated(idx))
         => matched_pairs = <<>>
    /\ (pc \in {"summarized", "analyze_raised"} /\ matched_pairs = <<>>)
         => (pc = "summarized" /\ summary[1].total_matched_pairs = 0)

----------------------------------------------------------------------------
(* C5: a second call on the same arguments returns the list the first call *)
(* returned; and on a table of two treated rows with one time and two      *)
(* controls in time for them, each treated row equally far from both, both *)
(* treated rows are paired and the controls are split one each.            *)

TieInput ==
    LET treated == {idx \in df.index : IsTreated(idx)}
        controls == {idx \in df.index : IsControl(idx)}
    IN  /\ Cardinality(df.index) = 4
        /\ Cardinality(treated) = 2
        /\ Cardinality(controls) = 2
        /\ \A a, b \in treated : TimeOf(a) = TimeOf(b)
        /\ \A a \in treated : \A c \in controls :
               TimeOf(c) >= TimeOf(a) /\ InCaliper(a, c)
        /\ \A a \in treated : \A c1, c2 \in controls :
               SqDistance(a, c1) = SqDistance(a, c2)

SplitOneEach ==
    /\ Len(matched_pairs) = 2
    /\ matched_pairs[1][1] # matched_pairs[2][1]
    /\ matched_pairs[1][2] # matched_pairs[2][2]
    /\ IsTreated(matched_pairs[1][1]) /\ IsTreated(matched_pairs[2][1])
    /\ IsControl(matched_pairs[1][2]) /\ IsControl(matched_pairs[2][2])

----------------------------------------------------------------------------
(* C6: a table with a missing treatment, time or covariate column, or with *)
(* a non-numeric covariate value in some row, never gets a pair appended   *)
(* and never makes the matching return.                                    *)

Malformed ==
    \/ ~HasColumn(df, treatment_col)
    \/ ~HasColumn(df, time_col)
    \/ \E k \in 1..Len(covariate_cols) : ~HasColumn(df, covariate_cols[k])
    \/ \E k \in 1..Len(covariate_cols) : \E idx \in df.index :
           ~IsNumeric(df, idx, covariate_cols[k])

C6_ConfigErrorsAbort ==
    Malformed =>
        /\ matched_pairs = <<>>
        /\ pc \notin {"returned", "summarized", "analyze_raised"}

----------------------------------------------------------------------------
(* C7: on a non-empty pair list the summary is returned; its count is the  *)
(* number of pairs and its mean, minimum and maximum are those of          *)
(* treated time - control time over the pairs, the times read from the     *)
(* time field the matching used.                                           *)

MatchingTimeDifferences ==
    [k \in 1..Len(matched_pairs) |->
        TimeOf(matched_pairs[k][1]) - TimeOf(matched_pairs[k][2])]

C7_SummaryCorrect ==
    /\ (pc = "analyze_raised") => matched_pairs = <<>>
    /\ (pc = "summarized") =>
        LET diffs == MatchingTimeDifferences
            s == summary[1]
        IN  /\ s.total_matched_pairs = Len(matched_pairs)
            /\ s.mean_time_difference.den = Len(matched_pairs)
            /\ s.mean_time_difference.num = Sum(diffs)
            /\ \A k \in 1..Len(diffs) :
                   s.min_time_difference <= diffs[k] /\ diffs[k] <= s.max_time_difference
            /\ \E k \in 1..Len(diffs) : s.min_time_difference = diffs[k]
            /\ \E k \in 1..Len(diffs) : s.max_time_difference = diffs[k]

----------------------------------------------------------------------------
(* C8: the control a step appends for a treated row is one of the controls *)
(* then eligible for it (untreated, in time, not in an earlier pair,       *)
(* within the caliper), none of them is nearer, and of those equally near  *)
(* none stands before it in the sorted table; Scenario A without a caliper *)
(* returns <<0,1>>, <<2,3>>.                                               *)

GreedyStep ==
    Appended =>
        LET t == LastPair(matched_pairs')[1]
            c == LastPair(matched_pairs')[2]
            eligible == EligibleControls(t, ControlsOf(matched_pairs))
        IN  /\ c \in eligible
            /\ \A x \in eligible :
                   /\ SqDistance(t, c) <= SqDistance(t, x)
                   /\ SqDistance(t, c) = SqDistance(t, x) =>
                          Position(df_matched, c) <= Position(df_matched, x)

ScenarioAResult ==
    (df = ScenarioA /\ caliper = None /\ pc = "returned") =>
        matched_pairs = <<<<0, 1>>, <<2, 3>>>>

C8_GreedyMinimum == []ScenarioAResult /\ [][GreedyStep]_vars

\* A pair whose control tied with another control eligible at that turn.
C8_Witness ==
    /\ pc = "returned"
    /\ \E k \in 1..Len(matched_pairs) :
           \E x \in EligibleControls(matched_pairs[k][1],
                                     ControlsOf(SubSeq(matched_pairs, 1, k - 1))) :
               /\ x # matched_pairs[k][2]
               /\ SqDistance(matched_pairs[k][1], x)
                    = SqDistance(matched_pairs[k][1], matched_pairs[k][2])

----------------------------------------------------------------------------
(* C9: every treated row gets one turn and is the first component of at    *)
(* most one pair; its turn appends a pair for it exactly when a control is *)
(* eligible for it (distance equal to the caliper included), otherwise     *)
(* nothing is appended; the turn never raises and the loop goes on to the  *)
(* next treated row, so the matching returns after every turn is taken.    *)

OneTurnEach ==
    /\ \A i, j \in 1..Len(matched_pairs) :
           i # j => matched_pairs[i][1] # matched_pairs[j][1]
    /\ pc \in {"loop", "returned"} =>
           /\ \A i, j \in 1..Len(treated_indices) :
                  i # j => treated_indices[i] # treated_indices[j]
           /\ {treated_indices[k] : k \in 1..Len(treated_indices)}
                = {idx \in df.index : IsTreated(idx)}
           /\ TreatedOf(matched_pairs)
                \subseteq {treated_indices[k] : k \in 1..(pos - 1)}
    /\ pc = "returned" => pos = Len(treated_indices) + 1
    /\ pc # "raised"

SkipStep ==
    AtTurn =>
        LET t == treated_indices[pos]
        IN  /\ pc' = "loop"
            /\ pos' = pos + 1
            /\ exception' = "None"
            /\ IF EligibleControls(t, ControlsOf(matched_pairs)) # {}
               THEN /\ Appended
                    /\ LastPair(matched_pairs')[1] = t
                    /\ SubSeq(matched_pairs', 1, Len(matched_pairs)) = matched_pairs
               ELSE matched_pairs' = matched_pairs

----------------------------------------------------------------------------
(* C10: treated rows are processed, pairs appended and risk sets listed in *)
(* non-decreasing order of time, rows with equal times in the order they   *)
(* have in the input table.                                                *)

StableTimeOrder(s) ==
    \A i, j \in 1..Len(s) :
        i < j => \/ TimeOf(s[i]) < TimeOf(s[j])
                 \/ TimeOf(s[i]) = TimeOf(s[j]) /\ s[i] < s[j]

C10_ProcessingOrder ==
    pc \in {"loop", "returned"} =>
        /\ StableTimeOrder(treated_indices)
        /\ StableTimeOrder([k \in 1..Len(matched_pairs) |-> matched_pairs[k][1]])
        /\ StableTimeOrder(risk_set)

====
